---- MODULE Spec2Model ----
(***************************************************************************)
(* cache-manager: createCache wraps a Store (redisStore or memoryStore)    *)
(* with schema validation, JSON serialisation, optional gzip compression,  *)
(* a beforeOperation hook and an EventEmitter with the channels 'error'    *)
(* and 'compress'.                                                         *)
(*                                                                         *)
(* Strings are sequences of one-character strings, so that prefixes,       *)
(* lengths, key suffixing, pattern matching and parsing are computed.      *)
(***************************************************************************)
EXTENDS Integers, Sequences, FiniteSets, TLC

\* ------------------------------------------------------------------ bounds

\* Longest run of one character in a string value offered to set/mset.
MaxStrLen == 14
\* Longest batch offered to mset and mget.
MaxBatch == 2
\* Most patterns in a schema declaration offered to the rule resolver.
MaxPatterns == 2

\* ----------------------------------------------------------------- strings

Rep(c, n) == [i \in 1..n |-> c]

StartsWith(s, p) == Len(s) >= Len(p) /\ SubSeq(s, 1, Len(p)) = p

Drop(s, n) == SubSeq(s, n + 1, Len(s))

CharsOf(s) == {s[i] : i \in 1..Len(s)}

\* lodash trimStart(string, chars): strips the leading characters that occur
\* in chars (chars is a set of characters, not a prefix).
RECURSIVE TrimStart(_, _)
TrimStart(s, chars) ==
  IF s # <<>> /\ s[1] \in CharsOf(chars) THEN TrimStart(Tail(s), chars) ELSE s

Digits == <<"1", "2", "3", "4", "5", "6", "7", "8", "9">>

IsDigit(c) == \E n \in 1..Len(Digits) : Digits[n] = c

IsNumChar(c) == c = "0" \/ IsDigit(c)

DigitVal(c) == CHOOSE n \in 1..Len(Digits) : Digits[n] = c

\* --------------------------------------------------------------- JS values

\* A JavaScript value: k is its kind, a the text of an atom (the characters of
\* a string, the numeral of a number, the literal of a boolean), f the own
\* enumerable properties of an object or array in insertion order.
Undefined == [k |-> "undefined", a |-> <<>>, f |-> <<>>]
Null == [k |-> "null", a |-> <<>>, f |-> <<>>]
Num(digits) == [k |-> "number", a |-> digits, f |-> <<>>]
JStr(s) == [k |-> "string", a |-> s, f |-> <<>>]
\* A BigInt, 1n: JSON.stringify throws a TypeError on it.
BigInt(digits) == [k |-> "bigint", a |-> digits, f |-> <<>>]
Bool(lit) == [k |-> "boolean", a |-> lit, f |-> <<>>]
Obj(fields) == [k |-> "object", a |-> <<>>, f |-> fields]
\* Object.keys of an array are its indices "0", "1", ...
IndexName(i) == IF i = 1 THEN <<"0">> ELSE <<Digits[i - 1]>>
Arr(elems) == [k |-> "array", a |-> <<>>, f |-> [i \in 1..Len(elems) |-> [n |-> IndexName(i), v |-> elems[i]]]]
Field(name, v) == [n |-> name, v |-> v]

LitNull == <<"n", "u", "l", "l">>
LitTrue == <<"t", "r", "u", "e">>
LitFalse == <<"f", "a", "l", "s", "e">>
LitUndefined == <<"u", "n", "d", "e", "f", "i", "n", "e", "d">>
Quote == "\""

\* JSON.stringify (utils.stringify) for JSON-representable values.
RECURSIVE Stringify(_)
RECURSIVE StringifyMembers(_, _, _)
StringifyMembers(fs, i, named) ==
  IF i > Len(fs) THEN <<>>
  ELSE (IF i > 1 THEN <<",">> ELSE <<>>)
       \o (IF named THEN <<Quote>> \o fs[i].n \o <<Quote, ":">> ELSE <<>>)
       \o Stringify(fs[i].v)
       \o StringifyMembers(fs, i + 1, named)
Stringify(v) ==
  CASE v.k = "number" -> v.a
    [] v.k = "boolean" -> v.a
    [] v.k = "string" -> <<Quote>> \o v.a \o <<Quote>>
    [] v.k = "null" -> LitNull
    [] v.k = "object" -> <<"{">> \o StringifyMembers(v.f, 1, TRUE) \o <<"}">>
    [] v.k = "array" -> <<"[">> \o StringifyMembers(v.f, 1, FALSE) \o <<"]">>

\* JSON.stringify returns a string for these values, and throws a TypeError
\* for a value that holds a BigInt.
RECURSIVE Serializable(_)
Serializable(v) == v.k # "bigint" /\ \A i \in 1..Len(v.f) : Serializable(v.f[i].v)

stringifyLenient(value) == [ok |-> TRUE, str |-> IF Serializable(value) THEN Stringify(value) ELSE <<>>]
\* stringify = JSON.stringify: the string, or the TypeError thrown
stringify(value) ==
  [ok |-> Serializable(value), str |-> IF Serializable(value) THEN Stringify(value) ELSE <<>>]

\* JSON.parse as a recursive-descent parser over the text: a result is
\* [ok, v, nxt], nxt the position after the value read.
ParseFail == [ok |-> FALSE, v |-> Undefined, nxt |-> 0]
ParseOk(v, nxt) == [ok |-> TRUE, v |-> v, nxt |-> nxt]

RECURSIVE ScanDigits(_, _)
ScanDigits(s, i) == IF i <= Len(s) /\ IsNumChar(s[i]) THEN ScanDigits(s, i + 1) ELSE i

RECURSIVE ScanQuote(_, _)
ScanQuote(s, i) == IF i > Len(s) THEN 0 ELSE IF s[i] = Quote THEN i ELSE ScanQuote(s, i + 1)

HasLit(s, i, lit) == i + Len(lit) - 1 <= Len(s) /\ SubSeq(s, i, i + Len(lit) - 1) = lit

RECURSIVE ParseValue(_, _)
RECURSIVE ParseMembers(_, _, _, _)
ParseMembers(s, i, acc, named) ==
  LET close == IF named THEN "}" ELSE "]"
      q == IF named /\ i <= Len(s) /\ s[i] = Quote THEN ScanQuote(s, i + 1) ELSE 0
      nameOk == ~named \/ (q > 0 /\ q + 1 <= Len(s) /\ s[q + 1] = ":")
      name == IF named /\ nameOk THEN SubSeq(s, i + 1, q - 1) ELSE IndexName(Len(acc) + 1)
      r == IF nameOk THEN ParseValue(s, IF named THEN q + 2 ELSE i) ELSE ParseFail
      acc2 == Append(acc, Field(name, r.v))
  IN  IF ~r.ok \/ r.nxt > Len(s) THEN ParseFail
      ELSE IF s[r.nxt] = close THEN ParseOk(acc2, r.nxt + 1)
      ELSE IF s[r.nxt] = "," THEN ParseMembers(s, r.nxt + 1, acc2, named)
      ELSE ParseFail
ParseValue(s, i) ==
  IF i > Len(s) THEN ParseFail
  ELSE IF IsNumChar(s[i]) THEN ParseOk(Num(SubSeq(s, i, ScanDigits(s, i) - 1)), ScanDigits(s, i))
  ELSE IF s[i] = Quote THEN
    (IF ScanQuote(s, i + 1) = 0 THEN ParseFail
     ELSE ParseOk(JStr(SubSeq(s, i + 1, ScanQuote(s, i + 1) - 1)), ScanQuote(s, i + 1) + 1))
  ELSE IF HasLit(s, i, LitNull) THEN ParseOk(Null, i + Len(LitNull))
  ELSE IF HasLit(s, i, LitTrue) THEN ParseOk(Bool(LitTrue), i + Len(LitTrue))
  ELSE IF HasLit(s, i, LitFalse) THEN ParseOk(Bool(LitFalse), i + Len(LitFalse))
  ELSE IF s[i] \in {"{", "["} THEN
    (LET named == s[i] = "{"
         close == IF named THEN "}" ELSE "]"
     IN  IF i + 1 <= Len(s) /\ s[i + 1] = close
         THEN ParseOk([k |-> IF named THEN "object" ELSE "array", a |-> <<>>, f |-> <<>>], i + 2)
         ELSE LET m == ParseMembers(s, i + 1, <<>>, named)
              IN  IF m.ok
                  THEN ParseOk([k |-> IF named THEN "object" ELSE "array", a |-> <<>>, f |-> m.v], m.nxt)
                  ELSE ParseFail)
  ELSE ParseFail

\* String(val): JSON.parse coerces its argument to a string first.
ToText(val) ==
  CASE val.k = "string" -> val.a
    [] val.k = "null" -> LitNull
    [] val.k = "undefined" -> LitUndefined

\* utils.parse: [error, result] of JSON.parse(value); the result of a failed
\* parse is undefined.
parse(val) ==
  LET r == ParseValue(ToText(val), 1)
  IN  IF r.ok /\ r.nxt = Len(ToText(val)) + 1
      THEN [err |-> FALSE, value |-> r.v]
      ELSE [err |-> TRUE, value |-> Undefined]

\* ------------------------------------------------------------- compression

GZIP_FLAG == <<"_", "g", "z", "i", "p", "_">>

\* The base64 text of a gzip stream always starts with 'H' (the gzip magic
\* bytes 1f 8b 08 encode to "H4sI").
GzipMagic == "H"

\* Run-length body of the compressed stream: a count (1..9) and the character.
RECURSIVE RunLen(_, _)
RunLen(s, n) ==
  IF n < Len(s) /\ n < Len(Digits) /\ s[n + 1] = s[1] THEN RunLen(s, n + 1) ELSE n

RECURSIVE Deflate(_)
Deflate(s) ==
  IF s = <<>> THEN <<>>
  ELSE <<Digits[RunLen(s, 1)], s[1]>> \o Deflate(Drop(s, RunLen(s, 1)))

RECURSIVE Inflate(_)
Inflate(b) ==
  IF b = <<>> THEN <<>> ELSE Rep(b[2], DigitVal(b[1])) \o Inflate(Drop(b, 2))

RECURSIVE WellFormedBody(_)
WellFormedBody(b) ==
  b = <<>> \/ (Len(b) >= 2 /\ IsDigit(b[1]) /\ WellFormedBody(Drop(b, 2)))

\* zlib.gzipSync(str).toString('base64')
GzipBase64(str) == <<GzipMagic>> \o Deflate(str)

\* zlib.gunzipSync(Buffer.from(text, 'base64')).toString(): throws on a text
\* that is no gzip stream.
GunzipBase64(text) ==
  IF text # <<>> /\ text[1] = GzipMagic /\ WellFormedBody(Tail(text))
  THEN [ok |-> TRUE, str |-> Inflate(Tail(text))]
  ELSE [ok |-> FALSE, str |-> <<>>]

\* ------------------------------------------------------------------ schema

\* A declared schema node (CacheSchemaNode | CacheSchemaObject |
\* CacheSchemaArray): type "" and maxTTL 0 stand for an absent field, hasProps
\* tells whether properties is given, props lists its entries in declaration
\* order.
Node(type, maxTTL) == [type |-> type, maxTTL |-> maxTTL, hasProps |-> FALSE, props |-> <<>>]
ObjNode(maxTTL, props) == [type |-> "object", maxTTL |-> maxTTL, hasProps |-> TRUE, props |-> props]
Decl(key, node) == [key |-> key, node |-> node]

Includes(key, c) == \E i \in 1..Len(key) : key[i] = c

\* key.replaceAll('*', '').length
LiteralCount(key) == Len(SelectSeq(key, LAMBDA c : c # "*"))

\* lodash partition(keys, includes('*')) keeps the order within each part.
WildcardKeys(keys) == SelectSeq(keys, LAMBDA k : Includes(k, "*"))
NormalKeys(keys) == SelectSeq(keys, LAMBDA k : ~Includes(k, "*"))

\* The position a key takes in a list already in descending order: behind
\* every key that does not count less (lodash orderBy is stable).
RECURSIVE InsertPos(_, _, _)
InsertPos(sorted, key, i) ==
  IF i <= Len(sorted) /\ LiteralCount(sorted[i]) >= LiteralCount(key)
  THEN InsertPos(sorted, key, i + 1) ELSE i

InsertKey(sorted, key) ==
  LET p == InsertPos(sorted, key, 1)
  IN  SubSeq(sorted, 1, p - 1) \o <<key>> \o SubSeq(sorted, p, Len(sorted))

\* orderBy(wildcardKeys, (key) => key.replaceAll('*', '').length, ['desc'])
RECURSIVE OrderByLiteralCount(_, _)
OrderByLiteralCount(keys, sorted) ==
  IF keys = <<>> THEN sorted
  ELSE OrderByLiteralCount(Tail(keys), InsertKey(sorted, keys[1]))

OrderedKeys(keys) == NormalKeys(keys) \o OrderByLiteralCount(WildcardKeys(keys), <<>>)

\* key.replace(/\*/g, '.*'): the source of the RegExp a wildcard key becomes.
RECURSIVE RegExpSource(_)
RegExpSource(key) ==
  IF key = <<>> THEN <<>>
  ELSE (IF key[1] = "*" THEN <<".", "*">> ELSE <<key[1]>>) \o RegExpSource(Tail(key))

\* RegExp.prototype.test for sources made of characters, '.' and a postfix
\* '*': a search for a match starting anywhere in the text, ending anywhere.
RECURSIVE MatchHere(_, _)
MatchHere(re, s) ==
  IF re = <<>> THEN TRUE
  ELSE IF Len(re) >= 2 /\ re[2] = "*" THEN
    \E n \in 0..Len(s) :
      /\ \A j \in 1..n : re[1] = "." \/ s[j] = re[1]
      /\ MatchHere(Drop(re, 2), Drop(s, n))
  ELSE s # <<>> /\ (re[1] = "." \/ re[1] = s[1]) /\ MatchHere(Tail(re), Tail(s))

RegExpTest(re, s) == \E i \in 0..Len(s) : MatchHere(re, Drop(s, i))

NodeOf(props, key) == (CHOOSE i \in 1..Len(props) : props[i].key = key)

\* transformSchema: an object node's properties become a Map from the literal
\* key, or the RegExp of a wildcard key, to the transformed child, literal keys
\* first and wildcard keys by descending literal-character count; each child
\* is tagged with __key__. Other nodes are returned as they are; their
\* properties are never read as a Map, so the compiled form keeps none.
RECURSIVE transformSchema(_)
transformSchema(node) ==
  IF node.type = "object" /\ node.hasProps THEN
    LET keys == OrderedKeys([i \in 1..Len(node.props) |-> node.props[i].key])
    IN  [type |-> node.type, maxTTL |-> node.maxTTL, hasProps |-> TRUE,
         props |-> [i \in 1..Len(keys) |->
            [isRegExp |-> Includes(keys[i], "*"),
             key |-> IF Includes(keys[i], "*") THEN RegExpSource(keys[i]) ELSE keys[i],
             key__ |-> keys[i],
             rule |-> transformSchema(node.props[NodeOf(node.props, keys[i])].node)]]]
  ELSE [type |-> node.type, maxTTL |-> node.maxTTL, hasProps |-> node.hasProps, props |-> <<>>]

NoRule == [found |-> FALSE, key__ |-> <<>>, rule |-> Node("", 0)]
Rule(entry) == [found |-> TRUE, key__ |-> entry.key__, rule |-> entry.rule]

\* The first wildcard entry, in Map order, that accepts the key.
RECURSIVE ScanRules(_, _, _)
ScanRules(ruleMap, key, i) ==
  IF i > Len(ruleMap) THEN NoRule
  ELSE IF ruleMap[i].isRegExp /\ (ruleMap[i].key__ = <<"*">> \/ RegExpTest(ruleMap[i].key, key))
  THEN Rule(ruleMap[i])
  ELSE ScanRules(ruleMap, key, i + 1)

\* getMatchRule: ruleMap.get(key), else the scan.
getMatchRule(ruleMap, key) ==
  IF \E i \in 1..Len(ruleMap) : ~ruleMap[i].isRegExp /\ ruleMap[i].key = key
  THEN Rule(ruleMap[CHOOSE i \in 1..Len(ruleMap) : ~ruleMap[i].isRegExp /\ ruleMap[i].key = key])
  ELSE ScanRules(ruleMap, key, 1)

\* typeCheckerMap: lodash isString, isNumber, isBoolean, isObject and
\* Array.isArray; no checker for an absent or unknown type.
HasChecker(type) == type \in {"string", "number", "boolean", "object", "array"}

Checker(type, value) ==
  CASE type = "string" -> value.k = "string"
    [] type = "number" -> value.k = "number"
    [] type = "boolean" -> value.k = "boolean"
    [] type = "object" -> value.k \in {"object", "array"}
    [] type = "array" -> value.k = "array"

\* A ttl argument: def is FALSE for undefined.
NoTtl == [def |-> FALSE, n |-> 0]
Ttl(n) == [def |-> TRUE, n |-> n]

Valid == [kind |-> "ok", path |-> <<>>]
Violation(kind, path) == [kind |-> kind, path |-> path]

\* ttl && rule.maxTTL && ttl > rule.maxTTL
TtlExceedsOrReaches(ttl, rule) ==
  ttl.def /\ ttl.n # 0 /\ rule.maxTTL # 0 /\ ttl.n >= rule.maxTTL
TtlExceeds(ttl, rule) ==
  ttl.def /\ ttl.n # 0 /\ rule.maxTTL # 0 /\ ttl.n > rule.maxTTL

\* value === undefined || value === null
NeverNullish(value) == FALSE
IsNullish(value) == value.k \in {"undefined", "null"}

\* vaildateCache: the CacheSchemaValidatorError thrown, or Valid.
RECURSIVE vaildateCache(_, _, _, _, _)
RECURSIVE ValidateKeys(_, _, _, _, _)
ValidateKeysSkipped(ruleMap, fields, i, currentPath, ttl) == Valid
ValidateKeysLast(ruleMap, fields, i, currentPath, ttl) ==
  IF fields = <<>> THEN Valid
  ELSE vaildateCache(ruleMap, fields[Len(fields)].n, fields[Len(fields)].v, currentPath, ttl)
vaildateCacheTypeRequired(ruleMap, key, value, path, ttl) ==
  LET m == getMatchRule(ruleMap, key)
      rule == m.rule
      currentPath == IF path # <<>> THEN path \o <<".">> \o key ELSE key
  IN  IF ~m.found THEN Violation("NoMatchingRule", currentPath)
      ELSE IF TtlExceeds(ttl, rule)
      THEN Violation("TTLExceeded", currentPath)
      ELSE IF IsNullish(value) THEN Valid
      ELSE IF ~HasChecker(rule.type) \/ ~Checker(rule.type, value)
      THEN Violation("TypeMismatch", currentPath)
      ELSE IF rule.type = "object" /\ rule.hasProps
      THEN ValidateKeys(rule.props, value.f, 1, currentPath, ttl)
      ELSE Valid
ValidateKeys(ruleMap, fields, i, currentPath, ttl) ==
  IF i > Len(fields) THEN Valid
  ELSE LET r == vaildateCache(ruleMap, fields[i].n, fields[i].v, currentPath, ttl)
       IN  IF r.kind # "ok" THEN r ELSE ValidateKeys(ruleMap, fields, i + 1, currentPath, ttl)
vaildateCache(ruleMap, key, value, path, ttl) ==
  LET m == getMatchRule(ruleMap, key)
      rule == m.rule
      currentPath == IF path # <<>> THEN path \o <<".">> \o key ELSE key
  IN  IF ~m.found THEN Violation("NoMatchingRule", currentPath)
      ELSE IF TtlExceeds(ttl, rule)
      THEN Violation("TTLExceeded", currentPath)
      ELSE IF ~HasChecker(rule.type) \/ IsNullish(value) THEN Valid
      ELSE IF ~Checker(rule.type, value) THEN Violation("TypeMismatch", currentPath)
      ELSE IF rule.type = "object" /\ rule.hasProps
      THEN ValidateKeys(rule.props, value.f, 1, currentPath, ttl)
      ELSE Valid

\* ---------------------------------------------------------- bounded inputs

KeyFoo == <<"f", "o", "o">>
KeyBar == <<"b", "a", "r", "x", "x", "x">>
PatBar == <<"b", "a", "r", "*">>
PatBa == <<"b", "a", "*">>
PropName == <<"n", "a", "m", "e">>
PropAge == <<"a", "g", "e">>

Keys == {KeyFoo, KeyBar}

One == Num(<<"1">>)
BigOne == BigInt(<<"1">>)
LongStr(n) == JStr(Rep("a", n))
StrValues == {LongStr(n) : n \in (MaxStrLen - 1)..MaxStrLen}
ObjValues ==
  { Obj(<<Field(PropName, One)>>),
    Obj(<<Field(PropName, JStr(<<"a">>))>>),
    Obj(<<Field(PropAge, One)>>) }
Values == {One, BigOne} \cup StrValues \cup ObjValues

TTLs == {NoTtl, Ttl(70)}

\* The options a set is called with: none, {gzip: true}, {NX: true}.
SetOptions ==
  { [gzip |-> FALSE, NX |-> FALSE], [gzip |-> TRUE, NX |-> FALSE], [gzip |-> FALSE, NX |-> TRUE] }

\* Pairs offered to mset, and the batches built from them.
BatchPairs ==
  { [key |-> KeyFoo, value |-> BigOne],
    [key |-> KeyFoo, value |-> LongStr(MaxStrLen)],
    [key |-> KeyBar, value |-> One] }
Batches(S) == UNION {[1..n -> S] : n \in 1..MaxBatch}
\* The batches mset is given: no pair twice in one batch.
PairBatches ==
  {args \in Batches(BatchPairs) : \A i, j \in 1..Len(args) : i # j => args[i] # args[j]}
\* The batches mdel is given: no key twice in one batch.
KeyBatches ==
  {keys \in Batches(Keys) : \A i, j \in 1..Len(keys) : i # j => keys[i] # keys[j]}

\* The functions the callers register on 'error'.
Listeners == {"onError"}

\* A string some other client of the backend left under a key: no JSON text.
ForeignStrings == {<<"a", "b", "c">>}

\* The key suffix the cache is configured with.
Suffix == <<"_", "t">>

\* The schema of the repository's tests, and one whose wildcard keys overlap,
\* that has no rule for 'foo', allows 'bar*' the longest ttl offered and its
\* property age less than the default ttl.
SchemaTest ==
  << Decl(KeyFoo, Node("string", 60)),
     Decl(PatBar, ObjNode(0, <<Decl(PropName, Node("string", 0))>>)) >>
SchemaOverlap ==
  << Decl(PatBa, Node("string", 0)),
     Decl(PatBar, ObjNode(70, <<Decl(PropName, Node("string", 0)),
                                Decl(PropAge, Node("number", 30))>>)) >>
Schemas == {SchemaTest, SchemaOverlap}

\* ------------------------------------------------------------------- state

VARIABLES
  cfg,            \* the options createCache was given, and the compiled ruleMap
  store,          \* the backing store: backend key -> entry
  errorListeners, \* the listeners registered on 'error'
  call            \* the call in flight, until its caller resumes

vars == <<cfg, store, errorListeners, call>>

\* ttl = 60 unless the options give one (createCache).
DefaultTTL == 60

Absent == [present |-> FALSE, val |-> <<>>, exp |-> 0]
Entry(val, exp) == [present |-> TRUE, val |-> val, exp |-> exp]

\* The names the backend can hold an entry under: the keys as the callers
\* give them, and the keys with the suffix.
BackendNames == Keys \cup {key \o Suffix : key \in Keys}

BackendKeyBare(key) == key
\* `${key}${suffix}`
BackendKey(key) == key \o cfg.suffix

\* createCache: the rule map is the compiled properties of
\* {type: 'object', properties: schema}; no schema, no rule map.
createCache(backend, hasSchema, schema, suffix) ==
  [ backend |-> backend,
    hasSchema |-> hasSchema,
    schema |-> schema,
    ruleMap |-> IF hasSchema THEN transformSchema(ObjNode(0, schema)).props ELSE <<>>,
    suffix |-> suffix,
    ttl |-> DefaultTTL ]

\* ------------------------------------------------------------------ stores

\* ttl === undefined ? defaultTTL : ttl
EffectiveTtl(ttl) == IF ttl.def THEN ttl.n ELSE cfg.ttl

\* redisStore.set: SET key value [NX] [EX t]; NX leaves a present key alone.
RedisSet(st, bkey, value, ttl, nx) ==
  IF nx /\ st[bkey].present THEN st
  ELSE [st EXCEPT ![bkey] = Entry(value, EffectiveTtl(ttl))]

\* memoryStore.set(key, value, opt): lruCache.set with ttl (opt ?? default);
\* it takes no fourth argument.
MemorySet(st, bkey, value, ttl, nx) ==
  [st EXCEPT ![bkey] = Entry(value, EffectiveTtl(ttl))]

StoreSet(st, bkey, value, ttl, nx) ==
  IF cfg.backend = "redis" THEN RedisSet(st, bkey, value, ttl, nx)
  ELSE MemorySet(st, bkey, value, ttl, nx)

\* store.mset: every pair written with the one ttl (redis: a MULTI of SET EX,
\* or MSET when there is no expiry; memory: lruCache.set each).
RECURSIVE StoreMset(_, _, _)
StoreMset(st, args, ttl) ==
  IF args = <<>> THEN st
  ELSE StoreMset([st EXCEPT ![args[1].key] = Entry(args[1].value, EffectiveTtl(ttl))],
                 Tail(args), ttl)

\* store.get: the string, or null (redis) / undefined (lru-cache) when absent.
StoreGet(st, bkey) ==
  IF st[bkey].present THEN JStr(st[bkey].val)
  ELSE IF cfg.backend = "redis" THEN Null ELSE Undefined

StoreDel(st, bkey) == [st EXCEPT ![bkey] = Absent]

\* store.mdel: client.del(args) / lruCache.delete of each.
StoreMdel(st, bkeys) ==
  [k \in DOMAIN st |-> IF \E i \in 1..Len(bkeys) : bkeys[i] = k THEN Absent ELSE st[k]]

\* store.reset: client.flushdb() / lruCache.clear(): every key of the backend.
StoreReset(st) == [k \in DOMAIN st |-> Absent]

\* The decimal digits of a natural number.
RECURSIVE Decimal(_)
Decimal(n) ==
  LET d == <<"0", "1", "2", "3", "4", "5", "6", "7", "8", "9">>
  IN  IF n < 10 THEN <<d[n + 1]>> ELSE Decimal(n \div 10) \o <<d[(n % 10) + 1]>>

\* store.ttl: redis TTL answers -2 for a missing key, -1 for a key without
\* expiry; lru-cache getRemainingTTL answers 0 and Infinity. The seconds left
\* to an entry that has just been written are the ttl it was written with.
StoreTtl(st, bkey) ==
  IF ~st[bkey].present
  THEN (IF cfg.backend = "redis" THEN Num(<<"-", "2">>) ELSE Num(<<"0">>))
  ELSE IF st[bkey].exp = 0
  THEN (IF cfg.backend = "redis" THEN Num(<<"-", "1">>) ELSE Num(<<"I", "n", "f", "i", "n", "i", "t", "y">>))
  ELSE Num(Decimal(st[bkey].exp))

\* store.exists: client.exists(key) / lruCache.has(key) ? 1 : 0
StoreExists(st, bkey) == IF st[bkey].present THEN Num(<<"1">>) ELSE Num(<<"0">>)

\* ------------------------------------------------------------------ events

NoEvent ==
  [ name |-> "", error |-> "", violation |-> "", path |-> <<>>, hasContext |-> FALSE,
    key |-> <<>>, hasGzip |-> FALSE, value |-> Undefined, operation |-> "" ]

\* emitter.emit('error', error) of vaildateCacheSilent
SchemaErrorEvent(viol) ==
  [NoEvent EXCEPT !.name = "error", !.error = "CacheSchemaValidatorError",
                  !.violation = viol.kind, !.path = viol.path]

\* emitter.emit('error', err, {key, value, operation})
ParseErrorEvent(bkey, value, operation) ==
  [NoEvent EXCEPT !.name = "error", !.error = "SyntaxError", !.hasContext = TRUE,
                  !.key = bkey, !.value = value, !.operation = operation]

\* emitter.emit('compress', {key, hasGzip, value})
CompressEvent(key, hasGzip, str) ==
  [NoEvent EXCEPT !.name = "compress", !.hasContext = TRUE, !.key = key,
                  !.hasGzip = hasGzip, !.value = JStr(str)]

\* EventEmitter.emit('error', ...) throws its argument when no listener is
\* registered on 'error'.
EmitThrows(listeners) == listeners = {}

NoHook ==
  [ operation |-> "", key |-> <<>>, hasValue |-> FALSE, value |-> <<>>,
    hasRawValue |-> FALSE, rawValue |-> Undefined, ttl |-> NoTtl ]

NoStoreCall ==
  [fn |-> "", key |-> <<>>, value |-> <<>>, ttl |-> NoTtl, nx |-> FALSE, args |-> <<>>]

NoCall ==
  [ op |-> "none", key |-> <<>>, value |-> Undefined, ttl |-> NoTtl,
    gzip |-> FALSE, nx |-> FALSE, parse |-> TRUE, args |-> <<>>,
    outcome |-> "", error |-> "", result |-> Undefined, results |-> <<>>,
    events |-> <<>>, hooks |-> <<>>, calls |-> <<>>, before |-> Absent, rule |-> NoRule,
    order |-> <<>>, violation |-> Valid ]

\* ---------------------------------------------------------------- pipeline

\* vaildateCacheSilent: validation runs only with a rule map; the error it
\* throws is caught and emitted on 'error'. The emit itself throws when
\* nobody listens.
vaildateCacheSilent(key, value, path, ttl) ==
  LET viol == IF cfg.hasSchema THEN vaildateCache(cfg.ruleMap, key, value, path, ttl) ELSE Valid
  IN  [ events |-> IF viol.kind = "ok" THEN <<>> ELSE <<SchemaErrorEvent(viol)>>,
        thrown |-> viol.kind # "ok" /\ EmitThrows(errorListeners) ]

\* str.length > gzipStr.length
CompressAdopted(str, gzipStr) == Len(str) > Len(gzipStr)

SetHookRaw(key, str, value, ttl) ==
  [NoHook EXCEPT !.operation = "set", !.key = key, !.hasValue = TRUE, !.value = Stringify(value),
                 !.hasRawValue = TRUE, !.rawValue = value, !.ttl = ttl]
\* beforeOperation?.({operation: 'set', key, value: str, rawValue: value, ttl})
SetHook(key, str, value, ttl) ==
  [NoHook EXCEPT !.operation = "set", !.key = key, !.hasValue = TRUE, !.value = str,
                 !.hasRawValue = TRUE, !.rawValue = value, !.ttl = ttl]

GetHook(key, value) ==
  [NoHook EXCEPT !.operation = "get", !.key = key, !.hasRawValue = TRUE, !.rawValue = value]

\* cache.set
cacheSet(key, value, ttl, gzip, nx) ==
  LET v == vaildateCacheSilent(key, value, <<>>, ttl)
      raw == stringify(value).str
      gzipStr == GZIP_FLAG \o GzipBase64(raw)
      hasGzip == gzip /\ CompressAdopted(raw, gzipStr)
      str == IF hasGzip THEN gzipStr ELSE raw
      base == [NoCall EXCEPT !.op = "set", !.key = key, !.value = value, !.ttl = ttl,
                             !.gzip = gzip, !.nx = nx, !.before = store[BackendKey(key)]]
  IN  IF v.thrown
      THEN [base EXCEPT !.outcome = "rejected", !.error = "CacheSchemaValidatorError",
                        !.events = v.events]
      ELSE IF ~stringify(value).ok
      THEN [base EXCEPT !.outcome = "rejected", !.error = "TypeError",
                        !.events = v.events, !.order = <<"stringify">>]
      ELSE [base EXCEPT
              !.outcome = "resolved",
              !.events = v.events \o (IF gzip THEN <<CompressEvent(key, hasGzip, str)>> ELSE <<>>),
              !.hooks = <<SetHook(key, str, value, ttl)>>,
              !.order = <<"stringify", "hook", "store">>,
              !.calls = <<[NoStoreCall EXCEPT !.fn = "set", !.key = BackendKey(key),
                                              !.value = str, !.ttl = ttl, !.nx = nx]>>]

DecompressSkipped(val) == [ok |-> TRUE, val |-> val]
\* if (isString(val) && val.startsWith(GZIP_FLAG)) val = gunzip(trimStart(val, GZIP_FLAG))
Decompress(val) ==
  IF val.k = "string" /\ StartsWith(val.a, GZIP_FLAG)
  THEN LET g == GunzipBase64(TrimStart(val.a, GZIP_FLAG))
       IN  [ok |-> g.ok, val |-> JStr(g.str)]
  ELSE [ok |-> TRUE, val |-> val]

ReadValueParsed(base, key, val) ==
  LET d == Decompress(val)
      p == parse(d.val)
      evs == IF p.err THEN <<ParseErrorEvent(BackendKey(key), d.val, "get")>> ELSE <<>>
  IN  IF ~d.ok THEN [base EXCEPT !.outcome = "rejected", !.error = "ZlibError",
                                 !.order = <<"store">>]
      ELSE IF p.err /\ EmitThrows(errorListeners)
      THEN [base EXCEPT !.outcome = "rejected", !.error = "SyntaxError", !.events = evs,
                        !.order = <<"store">>]
      ELSE [base EXCEPT !.outcome = "resolved", !.result = p.value, !.events = evs,
                        !.hooks = <<GetHook(key, p.value)>>, !.order = <<"store", "hook">>]
\* What get does with the value the store returned.
ReadValue(base, key, val) ==
  LET d == Decompress(val)
      p == parse(d.val)
      evs == IF p.err THEN <<ParseErrorEvent(BackendKey(key), d.val, "get")>> ELSE <<>>
  IN  IF ~base.parse
      THEN [base EXCEPT !.outcome = "resolved", !.result = val, !.hooks = <<GetHook(key, val)>>,
                        !.order = <<"store", "hook">>]
      ELSE IF ~d.ok THEN [base EXCEPT !.outcome = "rejected", !.error = "ZlibError",
                                      !.order = <<"store">>]
      ELSE IF p.err /\ EmitThrows(errorListeners)
      THEN [base EXCEPT !.outcome = "rejected", !.error = "SyntaxError", !.events = evs,
                        !.order = <<"store">>]
      ELSE [base EXCEPT !.outcome = "resolved", !.result = p.value, !.events = evs,
                        !.hooks = <<GetHook(key, p.value)>>, !.order = <<"store", "hook">>]

\* cache.get
cacheGet(key, enableParse) ==
  ReadValue([NoCall EXCEPT !.op = "get", !.key = key, !.parse = enableParse,
                           !.before = store[BackendKey(key)],
                           !.calls = <<[NoStoreCall EXCEPT !.fn = "get", !.key = BackendKey(key)]>>],
            key, StoreGet(store, BackendKey(key)))

Min(S) == CHOOSE x \in S : \A y \in S : x <= y

\* cache.mget: list.map over what store.mget returned; the first emit that
\* throws ends the map.
cacheMget(keys) ==
  LET n == Len(keys)
      newKeys == [i \in 1..n |-> BackendKey(keys[i])]
      list == [i \in 1..n |-> StoreGet(store, newKeys[i])]
      ps == [i \in 1..n |-> parse(list[i])]
      errs == {i \in 1..n : ps[i].err}
      thrown == errs # {} /\ EmitThrows(errorListeners)
      reached == IF thrown THEN Min(errs) ELSE n
      failed == SelectSeq([i \in 1..reached |-> i], LAMBDA i : ps[i].err)
      base == [NoCall EXCEPT
                 !.op = "mget", !.args = keys,
                 !.calls = <<[NoStoreCall EXCEPT !.fn = "mget", !.args = newKeys]>>,
                 !.events = [j \in 1..Len(failed) |->
                               ParseErrorEvent(newKeys[failed[j]], ps[failed[j]].value, "mget")]]
  IN  IF thrown
      THEN [base EXCEPT !.outcome = "rejected", !.error = "SyntaxError",
                        !.hooks = [i \in 1..(reached - 1) |-> GetHook(newKeys[i], ps[i].value)],
                        !.order = <<"store">> \o [i \in 1..(reached - 1) |-> "hook"]]
      ELSE [base EXCEPT !.outcome = "resolved",
                        !.results = [i \in 1..n |-> ps[i].value],
                        !.hooks = [i \in 1..n |-> GetHook(newKeys[i], ps[i].value)],
                        !.order = <<"store">> \o [i \in 1..n |-> "hook"]]

\* cache.mset: every pair is validated, then every pair is serialised and
\* reported to the hook, then store.mset is called once. It is no async
\* function: what is thrown on the way is thrown to the caller.
cacheMset(args, ttl) ==
  LET n == Len(args)
      vs == [i \in 1..n |-> vaildateCacheSilent(args[i].key, args[i].value, <<>>, ttl)]
      bad == {i \in 1..n : vs[i].events # <<>>}
      thrown == \E i \in bad : vs[i].thrown
      reached == IF thrown THEN Min(bad) ELSE n
      failed == SelectSeq([i \in 1..reached |-> i], LAMBDA i : i \in bad)
      newArgs == [i \in 1..n |-> [key |-> BackendKey(args[i].key), value |-> stringify(args[i].value).str]]
      base == [NoCall EXCEPT !.op = "mset", !.args = args, !.ttl = ttl,
                             !.events = [j \in 1..Len(failed) |-> vs[failed[j]].events[1]]]
      unserializable == {i \in 1..n : ~stringify(args[i].value).ok}
      mapped == IF unserializable = {} THEN n ELSE Min(unserializable) - 1
      hooks == [i \in 1..mapped |->
                  [NoHook EXCEPT !.operation = "set", !.key = args[i].key,
                                 !.hasRawValue = TRUE, !.rawValue = args[i].value,
                                 !.hasValue = TRUE, !.value = newArgs[i].value]]
      steps == [j \in 1..(2 * mapped) |-> IF j % 2 = 1 THEN "stringify" ELSE "hook"]
  IN  IF thrown
      THEN [base EXCEPT !.outcome = "thrown", !.error = "CacheSchemaValidatorError"]
      ELSE IF unserializable # {}
      THEN [base EXCEPT !.outcome = "thrown", !.error = "TypeError", !.hooks = hooks,
                        !.order = steps \o <<"stringify">>]
      ELSE [base EXCEPT
              !.outcome = "resolved",
              !.hooks = hooks,
              !.order = steps \o <<"store">>,
              !.calls = <<[NoStoreCall EXCEPT !.fn = "mset", !.args = newArgs, !.ttl = ttl]>>]

\* cache.del
cacheDel(key) ==
  [NoCall EXCEPT !.op = "del", !.key = key, !.outcome = "resolved",
                 !.before = store[BackendKey(key)],
                 !.hooks = <<[NoHook EXCEPT !.operation = "del", !.key = key]>>,
                 !.order = <<"hook", "store">>,
                 !.calls = <<[NoStoreCall EXCEPT !.fn = "del", !.key = BackendKey(key)]>>]

\* cache.ttl
cacheTtl(key) ==
  [NoCall EXCEPT !.op = "ttl", !.key = key, !.outcome = "resolved",
                 !.before = store[BackendKey(key)],
                 !.result = StoreTtl(store, BackendKey(key)),
                 !.hooks = <<[NoHook EXCEPT !.operation = "ttl", !.key = key]>>,
                 !.order = <<"hook", "store">>,
                 !.calls = <<[NoStoreCall EXCEPT !.fn = "ttl", !.key = BackendKey(key)]>>]

\* cache.exists
cacheExists(key) ==
  [NoCall EXCEPT !.op = "exists", !.key = key, !.outcome = "resolved",
                 !.before = store[BackendKey(key)],
                 !.result = StoreExists(store, BackendKey(key)),
                 !.hooks = <<[NoHook EXCEPT !.operation = "exists", !.key = key]>>,
                 !.order = <<"hook", "store">>,
                 !.calls = <<[NoStoreCall EXCEPT !.fn = "exists", !.key = BackendKey(key)]>>]

\* cache.mdel: store.mdel on the suffixed keys; no hook.
cacheMdel(keys) ==
  [NoCall EXCEPT !.op = "mdel", !.args = keys, !.outcome = "resolved",
                 !.order = <<"store">>,
                 !.calls = <<[NoStoreCall EXCEPT
                                !.fn = "mdel",
                                !.args = [i \in 1..Len(keys) |-> BackendKey(keys[i])]]>>]

\* cache.reset: store.reset(); no hook.
cacheReset ==
  [NoCall EXCEPT !.op = "reset", !.outcome = "resolved", !.order = <<"store">>,
                 !.calls = <<[NoStoreCall EXCEPT !.fn = "reset"]>>]

\* The store after the calls an operation made on it.
RECURSIVE ApplyCalls(_, _)
ApplyCalls(st, calls) ==
  IF calls = <<>> THEN st
  ELSE LET c == calls[1]
       IN  ApplyCalls(CASE c.fn = "set" -> StoreSet(st, c.key, c.value, c.ttl, c.nx)
                        [] c.fn = "mset" -> StoreMset(st, c.args, c.ttl)
                        [] c.fn = "del" -> StoreDel(st, c.key)
                        [] c.fn = "mdel" -> StoreMdel(st, c.args)
                        [] c.fn = "reset" -> StoreReset(st)
                        [] OTHER -> st,
                      Tail(calls))

\* ----------------------------------------------------------------- actions

Invoke(c) ==
  /\ call.op = "none"
  /\ call' = c
  /\ store' = ApplyCalls(store, c.calls)
  /\ UNCHANGED <<cfg, errorListeners>>

Set == \E key \in Keys, value \in Values, ttl \in TTLs, options \in SetOptions :
         Invoke(cacheSet(key, value, ttl, options.gzip, options.NX))

Get == \E key \in Keys, enableParse \in BOOLEAN : Invoke(cacheGet(key, enableParse))

MSet == \E args \in PairBatches, ttl \in TTLs : Invoke(cacheMset(args, ttl))

MGet == \E keys \in Batches(Keys) : Invoke(cacheMget(keys))

Del == \E key \in Keys : Invoke(cacheDel(key))

TtlOf == \E key \in Keys : Invoke(cacheTtl(key))

Exists == \E key \in Keys : Invoke(cacheExists(key))

MDel == \E keys \in KeyBatches : Invoke(cacheMdel(keys))

Reset == Invoke(cacheReset)

\* The caller's await resumes with the outcome.
Resume ==
  /\ call.op # "none"
  /\ call' = NoCall
  /\ UNCHANGED <<cfg, store, errorListeners>>

\* cache.on('error', listener)
On ==
  /\ call.op = "none"
  /\ \E listener \in Listeners \ errorListeners :
       errorListeners' = errorListeners \cup {listener}
  /\ UNCHANGED <<cfg, store, call>>

\* cache.off('error', listener)
Off ==
  /\ call.op = "none"
  /\ \E listener \in errorListeners :
       errorListeners' = errorListeners \ {listener}
  /\ UNCHANGED <<cfg, store, call>>

\* Another client of the backend writes a string under one of the keys.
ForeignWrite ==
  /\ call.op = "none"
  /\ \E key \in Keys, s \in ForeignStrings :
       store' = [store EXCEPT ![BackendKey(key)] = Entry(s, 0)]
  /\ UNCHANGED <<cfg, errorListeners, call>>

\* An entry with a time to live expires.
Expire ==
  /\ call.op = "none"
  /\ \E bkey \in DOMAIN store :
       /\ store[bkey].present /\ store[bkey].exp > 0
       /\ store' = [store EXCEPT ![bkey] = Absent]
  /\ UNCHANGED <<cfg, errorListeners, call>>

\* The caches the operations are run on: over redisStore without a schema
\* and with each schema, over memoryStore without a schema.
Caches ==
  {createCache(b, FALSE, <<>>, Suffix) : b \in {"redis", "memory"}}
    \cup {createCache("redis", TRUE, sch, Suffix) : sch \in Schemas}

Init ==
  /\ cfg \in Caches
  /\ store = [k \in BackendNames |-> Absent]
  /\ errorListeners = {}
  /\ call = NoCall

Next ==
  \/ Set \/ Get \/ MSet \/ MGet \/ Del \/ TtlOf \/ Exists \/ MDel \/ Reset
  \/ Resume \/ On \/ Off \/ ForeignWrite \/ Expire

Spec == Init /\ [][Next]_vars

\* ------------------------------------------------- rule resolution, alone

KeyXxBar == <<"x", "x", "b", "a", "r", "x", "x">>
KeyBan == <<"b", "a", "n">>
PatAny == <<"*">>
PatX == <<"x", "*">>

ProbePatterns == {KeyBar, PatBar, PatBa, PatAny, PatX}
ProbeKeys == {KeyBar, KeyXxBar, KeyBan, KeyFoo}

\* Schema declarations of up to MaxPatterns distinct keys, each a rule with no
\* type; the rule a key resolves to is told by its __key__.
ProbeSchemas ==
  UNION { { [i \in 1..n |-> Decl(q[i], Node("", 0))] :
              q \in {r \in [1..n -> ProbePatterns] : \A i, j \in 1..n : i # j => r[i] # r[j]} } :
          n \in 0..MaxPatterns }

InitRules ==
  /\ cfg \in {createCache("redis", TRUE, sch, Suffix) : sch \in ProbeSchemas}
  /\ store = [k \in BackendNames |-> Absent]
  /\ errorListeners = {}
  /\ call = NoCall

\* getMatchRule(ruleMap, key) on the compiled schema.
Resolve ==
  /\ call.op = "none"
  /\ \E key \in ProbeKeys :
       call' = [NoCall EXCEPT !.op = "getMatchRule", !.key = key,
                              !.rule = getMatchRule(cfg.ruleMap, key)]
  /\ UNCHANGED <<cfg, store, errorListeners>>

NextRules == Resolve \/ Resume

SpecRules == InitRules /\ [][NextRules]_vars

\* ------------------------------------------- with and without a suffix

\* suffix = '' unless the options give one (createCache).
NoSuffix == <<>>

\* Caches without a schema, with the default suffix and with a suffix given.
InitSuffix ==
  /\ cfg \in {createCache(b, FALSE, <<>>, sfx) : b \in {"redis", "memory"}, sfx \in {NoSuffix, Suffix}}
  /\ store = [k \in BackendNames |-> Absent]
  /\ errorListeners = {}
  /\ call = NoCall

SpecSuffix == InitSuffix /\ [][Next]_vars

\* ------------------------------------------- no schema, and an empty one

\* schema: {} declares no rule.
SchemaEmpty == <<>>

\* A cache created without a schema and one created with schema: {}.
InitEmpty ==
  /\ cfg \in {createCache("redis", FALSE, <<>>, Suffix),
              createCache("redis", TRUE, SchemaEmpty, Suffix)}
  /\ store = [k \in BackendNames |-> Absent]
  /\ errorListeners = {}
  /\ call = NoCall

SpecEmpty == InitEmpty /\ [][Next]_vars

\* ------------------------------------------------------ validation, alone

\* A schema with a rule of type object that declares no properties, and the
\* catch-all '*' with no type.
SchemaLoose ==
  << Decl(KeyFoo, Node("object", 0)),
     Decl(PatAny, Node("", 0)) >>
\* The schema of the test of rules without a type: 'foo' a string, 'bar*' of
\* type 'any' and '*' without a type, the last two declaring a property.
SchemaAny ==
  << Decl(KeyFoo, Node("string", 0)),
     Decl(PatBar, [type |-> "any", maxTTL |-> 0, hasProps |-> TRUE,
                   props |-> <<Decl(PropName, Node("string", 0))>>]),
     Decl(PatAny, [type |-> "", maxTTL |-> 0, hasProps |-> TRUE,
                   props |-> <<Decl(PropName, Node("string", 0))>>]) >>
ValidateSchemas == Schemas \cup {SchemaLoose, SchemaAny}

ValidateKeySet == {KeyFoo, KeyBar, KeyBan}

\* Values of every kind, objects that carry all, some or none of the
\* declared fields, and null or undefined at the top and in a field.
ValidateValues ==
  Values \cup
  { Null, Undefined, Bool(LitTrue), Arr(<<One>>),
    Obj(<<Field(PropName, Null)>>),
    Obj(<<Field(PropName, Undefined)>>),
    Obj(<<Field(PropAge, Null)>>),
    Obj(<<Field(PropName, JStr(<<"a">>)), Field(PropAge, One)>>),
    Obj(<<Field(PropAge, One), Field(PropName, One)>>) }

ValidateTTLs == TTLs \cup {Ttl(0)}

InitValidate ==
  /\ cfg \in {createCache("redis", TRUE, sch, Suffix) : sch \in ValidateSchemas}
  /\ store = [k \in BackendNames |-> Absent]
  /\ errorListeners = {}
  /\ call = NoCall

\* vaildateCache(ruleMap, key, value, '', ttl): returns, or throws the
\* violation.
Validate ==
  /\ call.op = "none"
  /\ \E key \in ValidateKeySet, value \in ValidateValues, ttl \in ValidateTTLs :
       LET viol == vaildateCache(cfg.ruleMap, key, value, <<>>, ttl)
       IN  call' = [NoCall EXCEPT !.op = "vaildateCache", !.key = key, !.value = value,
                                  !.ttl = ttl, !.violation = viol,
                                  !.outcome = IF viol = Valid THEN "returned" ELSE "thrown"]
  /\ UNCHANGED <<cfg, store, errorListeners>>

NextValidate == Validate \/ Resume

SpecValidate == InitValidate /\ [][NextValidate]_vars

\* ---------------------------------------- compilation, on the caller's objects

\* createCache calls made on one declaration.
MaxCaches == 2

\* An object of the heap, at the address that is its index: a schema node
\* (type, maxTTL, __key__ once tagged, properties as an address, 0 for none),
\* a plain properties object or a Map (entries: key and the child's address).
HeapNode(type, maxTTL, properties) ==
  [tag |-> "node", type |-> type, maxTTL |-> maxTTL, hasKey |-> FALSE, key__ |-> <<>>,
   properties |-> properties, entries |-> <<>>]
HeapObject(entries) ==
  [tag |-> "object", type |-> "", maxTTL |-> 0, hasKey |-> FALSE, key__ |-> <<>>,
   properties |-> 0, entries |-> entries]
HeapMap(entries) ==
  [tag |-> "map", type |-> "", maxTTL |-> 0, hasKey |-> FALSE, key__ |-> <<>>,
   properties |-> 0, entries |-> entries]
HeapEntry(isRegExp, key, node) == [isRegExp |-> isRegExp, key |-> key, node |-> node]

\* The caller's object literal: every node and every properties object of
\* the declaration is one object of the heap.
RECURSIVE AllocNode(_, _)
RECURSIVE AllocProps(_, _, _, _)
AllocProps(heap, props, i, entries) ==
  IF i > Len(props)
  THEN [heap |-> Append(heap, HeapObject(entries)), addr |-> Len(heap) + 1]
  ELSE LET child == AllocNode(heap, props[i].node)
       IN  AllocProps(child.heap, props, i + 1,
                      Append(entries, HeapEntry(FALSE, props[i].key, child.addr)))
AllocNode(heap, node) ==
  LET p == IF node.hasProps THEN AllocProps(heap, node.props, 1, <<>>)
           ELSE [heap |-> heap, addr |-> 0]
  IN  [heap |-> Append(p.heap, HeapNode(node.type, node.maxTTL, p.addr)),
       addr |-> Len(p.heap) + 1]

Declare(schema) == AllocProps(<<>>, schema, 1, <<>>)

\* Object.keys: the keys of a plain object; a Map has no own enumerable
\* property.
ObjectKeys(object) ==
  IF object.tag = "object" THEN [i \in 1..Len(object.entries) |-> object.entries[i].key]
  ELSE <<>>

\* node.properties[key]
PropertyAt(object, key) ==
  object.entries[CHOOSE i \in 1..Len(object.entries) : object.entries[i].key = key].node

\* transformSchema on the heap: the node's properties field is assigned a new
\* Map, each child is tagged with __key__ and transformed where it lies, and
\* the Map holds the children themselves.
RECURSIVE transformSchemaInPlace(_, _)
RECURSIVE ReduceKeys(_, _, _, _, _)
ReduceKeys(heap, properties, keys, i, acc) ==
  IF i > Len(keys) THEN [heap |-> heap, acc |-> acc]
  ELSE LET key == keys[i]
           value == PropertyAt(heap[properties], key)
           tagged == [heap EXCEPT ![value].hasKey = TRUE, ![value].key__ = key]
       IN  ReduceKeys(transformSchemaInPlace(tagged, value), properties, keys, i + 1,
                      Append(acc, HeapEntry(Includes(key, "*"),
                                            IF Includes(key, "*") THEN RegExpSource(key) ELSE key,
                                            value)))
transformSchemaInPlace(heap, addr) ==
  IF heap[addr].type = "object" /\ heap[addr].properties # 0 THEN
    LET properties == heap[addr].properties
        r == ReduceKeys(heap, properties, OrderedKeys(ObjectKeys(heap[properties])), 1, <<>>)
    IN  [Append(r.heap, HeapMap(r.acc)) EXCEPT ![addr].properties = Len(r.heap) + 1]
  ELSE heap

\* The rule map a validation reads through a Map of the heap, as the heap is
\* when it reads.
RECURSIVE RuleMapAt(_, _)
RuleAt(heap, addr) ==
  [type |-> heap[addr].type, maxTTL |-> heap[addr].maxTTL,
   hasProps |-> heap[addr].properties # 0,
   props |-> IF heap[addr].type = "object" /\ heap[addr].properties # 0
             THEN RuleMapAt(heap, heap[addr].properties) ELSE <<>>]
RuleMapAt(heap, map) ==
  [i \in 1..Len(heap[map].entries) |->
     [isRegExp |-> heap[map].entries[i].isRegExp,
      key |-> heap[map].entries[i].key,
      key__ |-> heap[heap[map].entries[i].node].key__,
      rule |-> RuleAt(heap, heap[map].entries[i].node)]]

\* The caller holds one declaration and the caches it created from it, each
\* by its rule map.
InitCompile ==
  /\ cfg \in {[declared |-> sch, heap |-> Declare(sch).heap, schema |-> Declare(sch).addr,
               caches |-> <<>>] : sch \in ValidateSchemas}
  /\ store = [k \in BackendNames |-> Absent]
  /\ errorListeners = {}
  /\ call = NoCall

\* createCache(factory, {schema}): transformSchema({type: 'object',
\* properties: schema}).properties
CreateCache ==
  /\ call.op = "none"
  /\ Len(cfg.caches) < MaxCaches
  /\ LET wrapper == Len(cfg.heap) + 1
         heap == transformSchemaInPlace(Append(cfg.heap, HeapNode("object", 0, cfg.schema)),
                                        wrapper)
     IN  cfg' = [cfg EXCEPT !.heap = heap,
                            !.caches = Append(cfg.caches, heap[wrapper].properties)]
  /\ UNCHANGED <<store, errorListeners, call>>

\* vaildateCache(ruleMap, key, value, '', ttl) with the rule map of one of
\* the caches.
ValidateIn ==
  /\ call.op = "none"
  /\ \E c \in 1..Len(cfg.caches), key \in ValidateKeySet, value \in ValidateValues,
        ttl \in TTLs :
       LET viol == vaildateCache(RuleMapAt(cfg.heap, cfg.caches[c]), key, value, <<>>, ttl)
       IN  call' = [NoCall EXCEPT !.op = "vaildateCache", !.key = key, !.value = value,
                                  !.ttl = ttl, !.args = <<c>>, !.violation = viol,
                                  !.outcome = IF viol = Valid THEN "returned" ELSE "thrown"]
  /\ UNCHANGED <<cfg, store, errorListeners>>

NextCompile == CreateCache \/ ValidateIn \/ Resume

SpecCompile == InitCompile /\ [][NextCompile]_vars

\* ------------------------------------------------- set calls in flight together

\* set calls the caller makes without awaiting the ones before.
MaxCalls == 2

\* The steps of set, in the order of its statements; 'settle' is what follows
\* the store's promise.
Steps == <<"validate", "stringify", "compress", "hook", "store", "settle">>
Done == Len(Steps) + 1

\* The statement after which set leaves the stack: return store.set(...) is
\* the first and only one that hands control back before the call is over.
YieldsAfterValidate(step) == step \in {"validate", "store"}
Yields(step) == step = "store"

ConcurrentValues == {One, JStr(<<"a">>)}

\* A call of set in flight: its arguments, the step it is to run next, and
\* whether it is off the stack, waiting to be continued.
Task(key, value, gzip) ==
  [key |-> key, value |-> value, gzip |-> gzip, pc |-> 1, parked |-> FALSE]

\* The calls on the stack: JavaScript runs one at a time, to its next yield.
OnStack == {i \in 1..Len(call.args) : call.args[i].pc # Done /\ ~call.args[i].parked}

InitConcurrent ==
  /\ cfg \in {createCache("redis", FALSE, <<>>, Suffix),
              createCache("redis", TRUE, SchemaTest, Suffix)}
  /\ store = [k \in BackendNames |-> Absent]
  /\ errorListeners = {}
  /\ call = NoCall

\* The caller calls cache.set(key, value, undefined, {gzip}) while earlier
\* calls may still be pending: it can only do so when nothing else runs.
CallSet ==
  /\ OnStack = {}
  /\ Len(call.args) < MaxCalls
  /\ \E key \in Keys, value \in ConcurrentValues, gzip \in BOOLEAN :
       call' = [call EXCEPT !.op = "set", !.args = Append(call.args, Task(key, value, gzip))]
  /\ UNCHANGED <<cfg, store, errorListeners>>

\* The call on the stack runs its next statement.
Step ==
  \E i \in OnStack :
    LET t == call.args[i]
        step == Steps[t.pc]
        c == cacheSet(t.key, t.value, NoTtl, t.gzip, FALSE)
        over == \/ step = "validate" /\ c.error = "CacheSchemaValidatorError"
                \/ step = "stringify" /\ c.error = "TypeError"
                \/ step = "settle"
        next == [t EXCEPT !.pc = IF over THEN Done ELSE t.pc + 1,
                          !.parked = ~over /\ Yields(step)]
        tagged == [j \in 1..Len(c.calls) |-> [c.calls[j] EXCEPT !.args = <<i>>]]
    IN  /\ call' = [call EXCEPT
                      !.args[i] = next,
                      !.order = Append(call.order, <<i, step>>),
                      !.events = call.events \o
                                   (CASE step = "validate" ->
                                           SelectSeq(c.events, LAMBDA e : e.name = "error")
                                      [] step = "compress" ->
                                           SelectSeq(c.events, LAMBDA e : e.name = "compress")
                                      [] OTHER -> <<>>),
                      !.hooks = call.hooks \o (IF step = "hook" THEN c.hooks ELSE <<>>),
                      !.calls = call.calls \o (IF step = "store" THEN tagged ELSE <<>>)]
        /\ store' = IF step = "store" THEN ApplyCalls(store, c.calls) ELSE store
        /\ UNCHANGED <<cfg, errorListeners>>

\* A call that yielded is continued, once nothing else runs.
Wake ==
  /\ OnStack = {}
  /\ \E i \in 1..Len(call.args) :
       /\ call.args[i].parked
       /\ call' = [call EXCEPT !.args[i].parked = FALSE]
  /\ UNCHANGED <<cfg, store, errorListeners>>

\* Every call made is over: the caller's await of them all resumes.
Finish ==
  /\ call.args # <<>>
  /\ \A i \in 1..Len(call.args) : call.args[i].pc = Done
  /\ call' = NoCall
  /\ UNCHANGED <<cfg, store, errorListeners>>

NextConcurrent == CallSet \/ Step \/ Wake \/ Finish

SpecConcurrent == InitConcurrent /\ [][NextConcurrent]_vars

\* ------------------------------------------- two caches over one redis client

\* The suffix of the second cache.
OtherSuffix == <<"_", "u">>

\* Two caches created with the same redis client and different suffixes.
SharedCaches == {createCache("redis", FALSE, <<>>, sfx) : sfx \in {Suffix, OtherSuffix}}

\* cfg is the cache the caller calls next.
InitShared ==
  /\ cfg \in SharedCaches
  /\ store = [k \in {key \o sfx : key \in Keys, sfx \in {Suffix, OtherSuffix}} |-> Absent]
  /\ errorListeners = {}
  /\ call = NoCall

\* The caller turns to the other cache.
Use ==
  /\ call.op = "none"
  /\ cfg' \in SharedCaches \ {cfg}
  /\ UNCHANGED <<store, errorListeners, call>>

\* cache.set(key, 1)
SetOne == \E key \in Keys : Invoke(cacheSet(key, One, NoTtl, FALSE, FALSE))

NextShared ==
  \/ SetOne \/ Get \/ MSet \/ MGet \/ Del \/ TtlOf \/ Exists \/ MDel \/ Reset
  \/ Resume \/ Use

SpecShared == InitShared /\ [][NextShared]_vars

\* ------------------------------------------------ writes with every kind of ttl

\* Caches with a schema whose rules declare a maxTTL.
InitTtl ==
  /\ cfg \in {createCache("redis", TRUE, sch, Suffix) : sch \in Schemas}
  /\ store = [k \in BackendNames |-> Absent]
  /\ errorListeners = {}
  /\ call = NoCall

\* cache.set(key, value, ttl) with no ttl, ttl 0 and a ttl above zero.
SetAnyTtl ==
  \E key \in Keys, value \in {One, JStr(<<"a">>)}, ttl \in ValidateTTLs :
    Invoke(cacheSet(key, value, ttl, FALSE, FALSE))

\* cache.mset(args, ttl) likewise.
MSetAnyTtl == \E args \in PairBatches, ttl \in ValidateTTLs : Invoke(cacheMset(args, ttl))

NextTtl == SetAnyTtl \/ MSetAnyTtl \/ Resume \/ On \/ Off \/ Expire

SpecTtl == InitTtl /\ [][NextTtl]_vars

\* ------------------------------------------------------------------ claims

\* What the specification means by a pattern matching a key: the whole key,
\* from first to last character, with every '*' standing for any (possibly
\* empty) sequence of characters.
RECURSIVE GlobMatch(_, _)
GlobMatch(pattern, key) ==
  IF pattern = <<>> THEN key = <<>>
  ELSE IF pattern[1] = "*" THEN \E n \in 0..Len(key) : GlobMatch(Tail(pattern), Drop(key, n))
  ELSE key # <<>> /\ key[1] = pattern[1] /\ GlobMatch(Tail(pattern), Tail(key))

DeclaredKeys(props) == {props[i].key : i \in 1..Len(props)}
LiteralKeys(props) == {k \in DeclaredKeys(props) : ~Includes(k, "*")}
MatchingWildcards(props, key) ==
  {k \in DeclaredKeys(props) : Includes(k, "*") /\ GlobMatch(k, key)}

\* The declared rule a key resolves to by the documented priority (0: none):
\* the literal key, else the matching wildcard key with the most literal
\* characters.
DeclaredRule(props, key) ==
  IF key \in LiteralKeys(props) THEN NodeOf(props, key)
  ELSE IF MatchingWildcards(props, key) = {} THEN 0
  ELSE NodeOf(props, CHOOSE k \in MatchingWildcards(props, key) :
                       \A o \in MatchingWildcards(props, key) : LiteralCount(k) >= LiteralCount(o))

WrongType(type, value) ==
  /\ value.k \notin {"null", "undefined"}
  /\ \/ type \in {"string", "number", "boolean", "array"} /\ value.k # type
     \/ type = "object" /\ value.k \notin {"object", "array"}

\* A violation, as the claims list them: no rule for the key, a ttl above the
\* rule's maxTTL, a value of the wrong type, or a violation in a property of
\* an object whose rule declares properties.
RECURSIVE Violates(_, _, _, _)
Violates(props, key, value, ttl) ==
  \/ DeclaredRule(props, key) = 0
  \/ LET node == props[DeclaredRule(props, key)].node
     IN  \/ ttl.def /\ node.maxTTL > 0 /\ ttl.n > node.maxTTL
         \/ WrongType(node.type, value)
         \/ /\ node.type = "object" /\ node.hasProps /\ value.k = "object"
            /\ \E j \in 1..Len(value.f) : Violates(node.props, value.f[j].n, value.f[j].v, ttl)

IsCompress(e) == e.name = "compress"
CompressEvents(c) == SelectSeq(c.events, IsCompress)
StoredRaw(c) == Stringify(c.value)
StoredGzip(c) == GZIP_FLAG \o GzipBase64(Stringify(c.value))

\* The text get has to parse: the stored string, decompressed when it carries
\* the marker.
Unparseable(entry) ==
  /\ entry.present
  /\ Decompress(JStr(entry.val)).ok
  /\ parse(Decompress(JStr(entry.val)).val).err

\* The values the call in flight was given can be serialised.
CallSerializable ==
  /\ Serializable(call.value)
  /\ \A i \in 1..Len(call.args) : call.op = "mset" => Serializable(call.args[i].value)

\* C1: a schema violation is never fatal: whatever listeners are registered,
\* a set or mset on a cache with a schema is not rejected or thrown, and the
\* store's set/mset is called with the serialised value.
C1_SchemaViolationNonFatal ==
  (call.op \in {"set", "mset"} /\ cfg.hasSchema /\ CallSerializable) =>
    /\ call.outcome = "resolved"
    /\ Len(call.calls) = 1
    /\ call.calls[1].fn = call.op

C3_RoundTrip ==
  (call.op = "set" /\ call.outcome = "resolved" /\ ~call.nx) =>
    /\ cacheGet(call.key, TRUE).outcome = "resolved"
    /\ cacheGet(call.key, TRUE).result = call.value

\* C3 witness: a completed set whose value was stored compressed, read back.
C3_Witness ==
  /\ call.op = "set" /\ call.outcome = "resolved" /\ ~call.nx /\ call.gzip
  /\ StartsWith(store[BackendKey(call.key)].val, GZIP_FLAG)
  /\ cacheGet(call.key, TRUE).result = call.value

\* C4: a set with NX on a key present in the backing store leaves the stored
\* value as it was, for the redis store and the memory store.
C4_NxKeepsPresentValue ==
  (call.op = "set" /\ call.nx /\ call.before.present) =>
    store[BackendKey(call.key)] = call.before

\* C5: every set with gzip requested stores the marker-prefixed compressed
\* form exactly when it is strictly shorter than the raw string, else the raw
\* string, and emits exactly one 'compress' event with the logical key, the
\* decision and the string handed to the store; a set without gzip emits none.
C5_CompressDecision ==
  (call.op = "set" /\ CallSerializable) =>
    IF call.gzip
    THEN /\ Len(CompressEvents(call)) = 1
         /\ Len(call.calls) = 1
         /\ call.calls[1].value =
              IF Len(StoredGzip(call)) < Len(StoredRaw(call))
              THEN StoredGzip(call) ELSE StoredRaw(call)
         /\ CompressEvents(call)[1].key = call.key
         /\ CompressEvents(call)[1].hasGzip = (Len(StoredGzip(call)) < Len(StoredRaw(call)))
         /\ CompressEvents(call)[1].value = JStr(call.calls[1].value)
    ELSE CompressEvents(call) = <<>>

\* C6: rule priority: a literal key equal to the key is chosen whatever
\* wildcard also matches; otherwise the rule chosen is, among the wildcard
\* patterns that match the key, one with the most non-'*' characters.
C6_RulePriority ==
  (call.op = "getMatchRule") =>
    /\ call.key \in LiteralKeys(cfg.schema) =>
         call.rule.found /\ call.rule.key__ = call.key
    /\ (call.key \notin LiteralKeys(cfg.schema) /\ MatchingWildcards(cfg.schema, call.key) # {}) =>
         /\ call.rule.found
         /\ call.rule.key__ \in MatchingWildcards(cfg.schema, call.key)
         /\ \A o \in MatchingWildcards(cfg.schema, call.key) :
              LiteralCount(call.rule.key__) >= LiteralCount(o)

\* C7: a wildcard pattern matches a key only when the whole key matches it; a
\* key that merely contains a match is not matched and, with no other rule,
\* has no matching rule.
C7_WholeKeyMatch ==
  (call.op = "getMatchRule" /\ call.rule.found /\ Includes(call.rule.key__, "*")) =>
    GlobMatch(call.rule.key__, call.key)

\* C8: mget(k1..kn) returns n elements, the i-th what get(ki) returns in the
\* same store state, compressed and unparseable values included.
C8_MgetMatchesGet ==
  (call.op = "mget" /\ call.outcome = "resolved") =>
    /\ Len(call.results) = Len(call.args)
    /\ \A i \in 1..Len(call.args) :
         /\ cacheGet(call.args[i], TRUE).outcome = "resolved"
         /\ cacheGet(call.args[i], TRUE).result = call.results[i]

\* C9: when the stored string cannot be parsed, get(key) with parsing enabled
\* returns that unparsed string.
C9_UnparsedStringReturned ==
  (call.op = "get" /\ call.parse /\ call.outcome = "resolved" /\ Unparseable(call.before)) =>
    call.result = JStr(call.before.val)

\* C10: a parse failure on read never raises: whatever listeners are
\* registered, get and mget resolve, and emit one 'error' event with the parse
\* error, the key, the value and the operation per unparseable element.
C10_ParseFailureNeverRaises ==
  /\ (call.op = "get" /\ call.parse /\ Unparseable(call.before)) =>
       /\ call.outcome = "resolved"
       /\ Len(call.events) = 1
       /\ call.events[1].error = "SyntaxError" /\ call.events[1].hasContext
  /\ (call.op = "mget"
        /\ \E i \in 1..Len(call.args) : Unparseable(store[BackendKey(call.args[i])])) =>
       /\ call.outcome = "resolved"
       /\ Len(call.events) =
            Cardinality({i \in 1..Len(call.args) : Unparseable(store[BackendKey(call.args[i])])})
\* C5 apart from C1: of the sets that are not rejected, every one stores and
\* reports the compression decision as C5 says.
C5_WhenNotRejected == (call.op = "set" /\ call.outcome = "resolved") => C5_CompressDecision
\* C6 apart from C7: among the wildcard keys the compiled expressions accept,
\* the order of priority is the one C6 gives.
C6_UnderCompiledMatch ==
  (call.op = "getMatchRule") =>
    LET W == {k \in DeclaredKeys(cfg.schema) : Includes(k, "*") /\ (k = <<"*">> \/ RegExpTest(RegExpSource(k), call.key))}
    IN /\ call.key \in LiteralKeys(cfg.schema) => call.rule.found /\ call.rule.key__ = call.key
       /\ (call.key \notin LiteralKeys(cfg.schema) /\ W # {}) =>
           call.rule.found /\ call.rule.key__ \in W /\ \A o \in W : LiteralCount(call.rule.key__) >= LiteralCount(o)
\* C11: a set that passes no ttl is validated against maxTTL with the cache's
\* default ttl: when the default exceeds the maxTTL of a rule the value
\* otherwise satisfies, the set reports TTLExceeded.
C11_DefaultTtlValidated ==
  (/\ call.op = "set" /\ cfg.hasSchema /\ ~call.ttl.def
   /\ ~Violates(cfg.schema, call.key, call.value, NoTtl)
   /\ Violates(cfg.schema, call.key, call.value, Ttl(cfg.ttl))) =>
    /\ call.events # <<>>
    /\ call.events[1].violation = "TTLExceeded"

\* The rule declared for the key of the call in flight has a maxTTL below
\* the ttl of the call.
CallExceedsMaxTtl ==
  /\ call.ttl.def
  /\ DeclaredRule(cfg.schema, call.key) # 0
  /\ cfg.schema[DeclaredRule(cfg.schema, call.key)].node.maxTTL > 0
  /\ cfg.schema[DeclaredRule(cfg.schema, call.key)].node.maxTTL < call.ttl.n

IsError(e) == e.name = "error"

\* C12: a set whose ttl exceeds the maxTTL of the rule matched for its key
\* emits exactly one 'error' event, whatever else is wrong with the value,
\* and the value is still written to the backing store.
C12_TtlExceededOnceAndWritten ==
  (call.op = "set" /\ cfg.hasSchema /\ CallExceedsMaxTtl /\ Serializable(call.value)) =>
    /\ Len(SelectSeq(call.events, IsError)) = 1
    /\ Len(call.calls) = 1
    /\ call.calls[1].fn = "set"
    /\ call.calls[1].value \in {StoredRaw(call), StoredGzip(call)}
    /\ ~call.nx => store[BackendKey(call.key)].val = call.calls[1].value

\* C12 apart from C1: with a listener on 'error', every such set emits the one
\* event and writes the value.
C12_WhenListening ==
  errorListeners # {} => C12_TtlExceededOnceAndWritten
\* C13: key namespacing: every store call of get, set, del, ttl and exists
\* names the logical key followed by the configured suffix, every key of
\* mget, mset and mdel likewise; entries appear in the backend under such
\* names only, and a completed set leaves its string there.
C13_KeyNamespacing ==
  /\ \A i \in 1..Len(call.calls) :
        /\ call.op \in {"get", "set", "del", "ttl", "exists"} =>
             call.calls[i].key = call.key \o cfg.suffix
        /\ call.op \in {"mget", "mdel"} =>
             call.calls[i].args = [j \in 1..Len(call.args) |-> call.args[j] \o cfg.suffix]
        /\ call.op = "mset" =>
             /\ Len(call.calls[i].args) = Len(call.args)
             /\ \A j \in 1..Len(call.args) :
                  call.calls[i].args[j].key = call.args[j].key \o cfg.suffix
  /\ call.op \in {"get", "set", "del", "ttl", "exists", "mget", "mset", "mdel"} =>
       (call.outcome = "resolved" => Len(call.calls) = 1)
  /\ \A n \in DOMAIN store : store[n].present => \E key \in Keys : n = key \o cfg.suffix
  /\ (call.op = "set" /\ call.outcome = "resolved" /\ ~call.nx) =>
       store[call.key \o cfg.suffix].val = call.calls[1].value

\* C13 witness: with suffix '_t', set('barxxx', {name: 1}) has left the string
\* {"name":1} under 'barxxx_t'.
C13_Witness ==
  /\ call.op = "set" /\ call.outcome = "resolved"
  /\ cfg.suffix = <<"_", "t">>
  /\ call.key = KeyBar /\ call.value = Obj(<<Field(PropName, One)>>)
  /\ store[<<"b", "a", "r", "x", "x", "x", "_", "t">>].val =
       <<"{", "\"", "n", "a", "m", "e", "\"", ":", "1", "}">>

\* C14: every set whose value is serialised invokes beforeOperation exactly
\* once, before the store's set, with operation 'set', the logical key, the
\* caller's value as rawValue, the string handed to the store as value (the
\* compressed form when it was adopted) and the ttl of the call.
C14_SetHookOnceBeforeStore ==
  (call.op = "set" /\ call.order # <<>> /\ Serializable(call.value)) =>
    /\ call.order = <<"stringify", "hook", "store">>
    /\ Len(call.hooks) = 1 /\ Len(call.calls) = 1
    /\ call.hooks[1].operation = "set"
    /\ call.hooks[1].key = call.key
    /\ call.hooks[1].hasRawValue /\ call.hooks[1].rawValue = call.value
    /\ call.hooks[1].hasValue /\ call.hooks[1].value = call.calls[1].value
    /\ call.hooks[1].ttl = call.ttl
    /\ call.calls[1].value =
         IF call.gzip /\ Len(StoredGzip(call)) < Len(StoredRaw(call))
         THEN StoredGzip(call) ELSE StoredRaw(call)

\* C14 witness: a set with a ttl whose hook was given the compressed string.
C14_Witness ==
  /\ call.op = "set" /\ call.outcome = "resolved" /\ call.ttl = Ttl(70)
  /\ call.order = <<"stringify", "hook", "store">>
  /\ StartsWith(call.hooks[1].value, GZIP_FLAG)
  /\ call.hooks[1].key = KeyFoo /\ cfg.suffix # <<>>

\* C15: each of del, mdel, ttl, exists and reset invokes beforeOperation
\* exactly once, with a context tagged with the operation's own name and no
\* value, and then calls the store operation of that name.
C15_PassThroughHooks ==
  (call.op \in {"del", "mdel", "ttl", "exists", "reset"}) =>
    /\ Len(call.hooks) = 1
    /\ call.hooks[1].operation = call.op
    /\ ~call.hooks[1].hasValue /\ ~call.hooks[1].hasRawValue
    /\ call.order = <<"hook", "store">>
    /\ Len(call.calls) = 1 /\ call.calls[1].fn = call.op

\* C16: for get, mget, set, mset, del, ttl and exists, the hook of a call
\* that reaches the backing store is invoked, and before the store is read
\* or written, never after.
C16_HookBeforeStore ==
  (call.op \in {"get", "mget", "set", "mset", "del", "ttl", "exists"}) =>
    \A j \in 1..Len(call.order) :
      call.order[j] = "store" =>
        /\ \E i \in 1..(j - 1) : call.order[i] = "hook"
        /\ \A i \in (j + 1)..Len(call.order) : call.order[i] # "hook"

\* C17: when serialising the value throws, set rejects with that failure,
\* the store's set is not called, the backing store is unchanged and the
\* hook is not invoked; mset with an unserialisable value fails without
\* calling the store's mset.
C17_SerializationFailureAborts ==
  /\ (call.op = "set" /\ call.order # <<>> /\ ~Serializable(call.value)) =>
       /\ call.outcome = "rejected" /\ call.error = "TypeError"
       /\ call.calls = <<>> /\ call.hooks = <<>>
       /\ store[call.key \o cfg.suffix] = call.before
  /\ (call.op = "mset" /\ call.order # <<>>
        /\ \E i \in 1..Len(call.args) : ~Serializable(call.args[i].value)) =>
       /\ call.outcome = "thrown" /\ call.error = "TypeError"
       /\ call.calls = <<>>

\* C17 witness: a set of a value JSON.stringify throws on, over a present
\* entry that is still there.
C17_Witness ==
  /\ call.op = "set" /\ call.value = BigOne /\ call.outcome = "rejected"
  /\ call.error = "TypeError"
  /\ call.before.present /\ store[call.key \o cfg.suffix] = call.before
\* The node declared for the key of the call in flight, once DeclaredRule
\* finds one.
CallNode == cfg.schema[DeclaredRule(cfg.schema, call.key)].node

\* The fields of the value in flight that break the declared child rules.
BadFields ==
  {j \in 1..Len(call.value.f) :
     Violates(CallNode.props, call.value.f[j].n, call.value.f[j].v, call.ttl)}

FieldPath(j) == call.key \o <<".">> \o call.value.f[j].n

\* C19: under a rule of type object that declares properties, a rule is
\* resolved for every own key of the value: a value with only some of the
\* declared fields validates, a field for which no child rule resolves
\* raises NoMatchingRule with the path extended by the field; a rule of type
\* object without properties looks at no field.
C19_OwnKeysOfTheValue ==
  (/\ call.op = "vaildateCache" /\ call.value.k = "object"
   /\ DeclaredRule(cfg.schema, call.key) # 0
   /\ CallNode.type = "object"
   /\ ~(call.ttl.def /\ CallNode.maxTTL > 0 /\ call.ttl.n > CallNode.maxTTL)) =>
    IF ~CallNode.hasProps \/ BadFields = {} THEN call.violation = Valid
    ELSE DeclaredRule(CallNode.props, call.value.f[Min(BadFields)].n) = 0 =>
           call.violation = Violation("NoMatchingRule", FieldPath(Min(BadFields)))

\* C19 witness: a value with one of the two declared fields validates.
C19_Witness ==
  /\ call.op = "vaildateCache" /\ call.violation = Valid
  /\ call.key = KeyBar /\ call.value = Obj(<<Field(PropName, JStr(<<"a">>))>>)
  /\ CallNode.hasProps /\ Len(CallNode.props) = 2

\* C20: a null or absent value, at the top or in a field, never raises
\* TypeMismatch whatever type its rule declares, and raises NoMatchingRule
\* when no rule resolves for its key.
C20_NullishSkipsTypeCheck ==
  /\ (call.op = "vaildateCache" /\ call.value.k \in {"null", "undefined"}) =>
       /\ call.violation.kind # "TypeMismatch"
       /\ DeclaredRule(cfg.schema, call.key) = 0 =>
            call.violation = Violation("NoMatchingRule", call.key)
  /\ (/\ call.op = "vaildateCache" /\ call.value.k = "object"
      /\ \A j \in 1..Len(call.value.f) : call.value.f[j].v.k \in {"null", "undefined"}
      /\ DeclaredRule(cfg.schema, call.key) # 0) =>
       /\ CallNode.type = "object" => call.violation.kind # "TypeMismatch"
       /\ (/\ CallNode.type = "object" /\ CallNode.hasProps
           /\ call.violation.kind # "TTLExceeded"
           /\ \E j \in 1..Len(call.value.f) :
                DeclaredRule(CallNode.props, call.value.f[j].n) = 0) =>
            call.violation.kind = "NoMatchingRule"

\* C20 witness: {name: null} validates under a rule that declares name a
\* string.
C20_Witness ==
  /\ call.op = "vaildateCache" /\ call.violation = Valid
  /\ call.key = KeyBar /\ call.value = Obj(<<Field(PropName, Null)>>)
  /\ CallNode.hasProps /\ DeclaredRule(CallNode.props, PropName) # 0
  /\ CallNode.props[DeclaredRule(CallNode.props, PropName)].node.type = "string"
\* The objects of the heap a rule map reaches.
RECURSIVE ReachedFrom(_, _)
ReachedFrom(heap, map) ==
  {map} \cup
  UNION { {heap[map].entries[i].node} \cup
          (IF heap[heap[map].entries[i].node].properties # 0
           THEN ReachedFrom(heap, heap[heap[map].entries[i].node].properties) ELSE {})
        : i \in 1..Len(heap[map].entries) }

\* C18: after createCache the caller's schema object and all its nested
\* nodes are as declared, the compiled structure shares no node with them,
\* and the rules of every cache stay the compiled form of the declaration.
C18_CompileLeavesDeclaration ==
  cfg.caches # <<>> =>
    /\ \A a \in 1..Len(Declare(cfg.declared).heap) :
         cfg.heap[a] = Declare(cfg.declared).heap[a]
    /\ \A c \in 1..Len(cfg.caches) :
         /\ ReachedFrom(cfg.heap, cfg.caches[c]) \cap 1..Len(Declare(cfg.declared).heap) = {}
         /\ RuleMapAt(cfg.heap, cfg.caches[c]) = transformSchema(ObjNode(0, cfg.declared)).props
\* C21: on a cache without a schema, and on one whose declared schema is
\* empty, no set and no mset emits a schema-violation 'error' event.
C21_NoRulesNoViolation ==
  (call.op \in {"set", "mset"} /\ (~cfg.hasSchema \/ cfg.schema = <<>>)) =>
    \A i \in 1..Len(call.events) : call.events[i].error # "CacheSchemaValidatorError"

\* C21 on the caches created without a schema.
C21_WithoutSchema ==
  ~cfg.hasSchema => C21_NoRulesNoViolation
\* C22: get(key, {parse: false}) resolves to exactly the string the backing
\* store holds under the suffixed key, neither decompressed nor parsed, emits
\* no 'error' event and fires the hook once with that string as rawValue.
C22_RawGet ==
  (call.op = "get" /\ ~call.parse /\ store[call.key \o cfg.suffix].present) =>
    /\ call.outcome = "resolved"
    /\ call.result = JStr(store[call.key \o cfg.suffix].val)
    /\ call.events = <<>>
    /\ Len(call.hooks) = 1
    /\ call.hooks[1].operation = "get"
    /\ call.hooks[1].hasRawValue
    /\ call.hooks[1].rawValue = JStr(store[call.key \o cfg.suffix].val)
    /\ Len(call.calls) = 1 /\ call.calls[1].fn = "get"
    /\ call.calls[1].key = call.key \o cfg.suffix

\* C22 witness: a raw get that returned a string carrying the compression
\* marker.
C22_Witness ==
  /\ call.op = "get" /\ ~call.parse /\ call.outcome = "resolved"
  /\ call.result.k = "string" /\ StartsWith(call.result.a, GZIP_FLAG)
  /\ call.hooks = <<GetHook(call.key, call.result)>>
\* The pairs of the mset in flight that break the declared schema.
BadPairs ==
  {i \in 1..Len(call.args) :
     cfg.hasSchema /\ Violates(cfg.schema, call.args[i].key, call.args[i].value, call.ttl)}

\* C23: mset(pairs, ttl) validates every pair with the shared ttl and makes
\* exactly one call to the store's mset, with every pair in input order, its
\* key suffixed and its value serialised, and the single ttl; afterwards
\* every key of the batch holds its value, all with the same expiry.
C23_MsetOneBatchedCall ==
  (call.op = "mset" /\ \A i \in 1..Len(call.args) : Serializable(call.args[i].value)) =>
    /\ Len(SelectSeq(call.events, IsError)) = Cardinality(BadPairs)
    /\ Len(call.calls) = 1
    /\ call.calls[1].fn = "mset"
    /\ call.calls[1].ttl = call.ttl
    /\ call.calls[1].args =
         [i \in 1..Len(call.args) |->
            [key |-> call.args[i].key \o cfg.suffix, value |-> Stringify(call.args[i].value)]]
    /\ \A i, j \in 1..Len(call.args) :
         /\ store[call.args[i].key \o cfg.suffix].present
         /\ store[call.args[i].key \o cfg.suffix].val = Stringify(call.args[i].value)
         /\ store[call.args[i].key \o cfg.suffix].exp = store[call.args[j].key \o cfg.suffix].exp

\* C23 apart from C1: every mset that is not thrown out of does as claimed.
C23_WhenNotThrown ==
  call.outcome # "thrown" => C23_MsetOneBatchedCall
\* C24: a rule declared with no type, or with type 'any', accepts every
\* value of every kind: validation never raises TypeMismatch under it and
\* looks at no field of the value.
C24_UntypedAcceptsAll ==
  (/\ call.op = "vaildateCache"
   /\ DeclaredRule(cfg.schema, call.key) # 0
   /\ CallNode.type \in {"", "any"}
   /\ ~(call.ttl.def /\ CallNode.maxTTL > 0 /\ call.ttl.n > CallNode.maxTTL)) =>
    call.violation = Valid

\* C24 witness: {name: 1} accepted under a rule of type 'any' that declares
\* name a string.
C24_Witness ==
  /\ call.op = "vaildateCache" /\ call.violation = Valid
  /\ call.key = KeyBar /\ call.value = Obj(<<Field(PropName, One)>>)
  /\ DeclaredRule(cfg.schema, call.key) # 0
  /\ CallNode.type = "any" /\ CallNode.hasProps
\* The violation the documented order of checks reports for a key, a value
\* and a ttl under declared rules: no rule, else the ttl, else the type, else
\* the first field, in the value's key order, that has a violation of its
\* own.
RECURSIVE FirstViolation(_, _, _, _, _)
FirstViolation(props, key, value, path, ttl) ==
  LET cur == IF path = <<>> THEN key ELSE path \o <<".">> \o key
      d == DeclaredRule(props, key)
      node == props[d].node
      bad == {j \in 1..Len(value.f) :
                FirstViolation(node.props, value.f[j].n, value.f[j].v, cur, ttl) # Valid}
  IN  IF d = 0 THEN Violation("NoMatchingRule", cur)
      ELSE IF ttl.def /\ node.maxTTL > 0 /\ ttl.n > node.maxTTL
      THEN Violation("TTLExceeded", cur)
      ELSE IF WrongType(node.type, value) THEN Violation("TypeMismatch", cur)
      ELSE IF node.type = "object" /\ node.hasProps /\ value.k \in {"object", "array"} /\ bad # {}
      THEN FirstViolation(node.props, value.f[Min(bad)].n, value.f[Min(bad)].v, cur, ttl)
      ELSE Valid

\* C26: validation checks in a fixed order and stops at the first failure:
\* NoMatchingRule, then TTLExceeded, then TypeMismatch, then the properties
\* in the value's key order.
C26_FixedCheckOrder ==
  call.op = "vaildateCache" =>
    call.violation = FirstViolation(cfg.schema, call.key, call.value, <<>>, call.ttl)

\* C26 witness: a number written to 'foo', declared a string with maxTTL 60,
\* with ttl 70 reports TTLExceeded.
C26_Witness ==
  /\ call.op = "vaildateCache" /\ call.key = KeyFoo /\ call.value = One
  /\ call.ttl = Ttl(70)
  /\ DeclaredRule(cfg.schema, call.key) # 0
  /\ CallNode.type = "string" /\ CallNode.maxTTL = 60
  /\ call.violation = Violation("TTLExceeded", KeyFoo)
\* The places of the log at which a call ran a step.
LogAt(i, step) == {p \in 1..Len(call.order) : call.order[p] = <<i, step>>}

\* C25: within one set call validation, the compress event, the hook and the
\* call of the store's set run with no step of another call between them (a
\* step that is not the call's last before it settles is followed by a step
\* of the same call);
\* the hooks of two set calls in flight together fire, and their store calls
\* are issued, in the order the calls were made.
C25_SetRunsToStoreCall ==
  call.op = "set" =>
    /\ \A p \in 1..(Len(call.order) - 1) :
         (/\ call.order[p][2] # "settle"
          /\ \E r \in (p + 1)..Len(call.order) :
               call.order[r][1] = call.order[p][1] /\ call.order[r][2] # "settle") =>
           call.order[p + 1][1] = call.order[p][1]
    /\ \A i, j \in 1..Len(call.args) : \A step \in {"hook", "store"} :
         i < j => \A q \in LogAt(j, step) : \A p \in LogAt(i, step) : p < q
    /\ \A m, n \in 1..Len(call.calls) : m < n => call.calls[m].args[1] < call.calls[n].args[1]

\* C25 witness: two set calls in flight together, both past their hook and
\* their store call, neither settled.
C25_Witness ==
  /\ call.op = "set" /\ Len(call.args) = 2
  /\ \A i \in 1..2 : call.args[i].parked /\ Steps[call.args[i].pc] = "settle"
  /\ Len(call.hooks) = 2 /\ Len(call.calls) = 2
  /\ call.hooks[1].key = call.args[1].key /\ call.hooks[2].key = call.args[2].key
  /\ call.args[1].key # call.args[2].key
EndsWith(name, suffix) ==
  /\ Len(name) >= Len(suffix)
  /\ SubSeq(name, Len(name) - Len(suffix) + 1, Len(name)) = suffix

\* What a step leaves alone when it is an operation of the cache with suffix
\* cfg.suffix: every entry of the backing store under a key that does not
\* end with the suffix.
OthersUntouched ==
  (call.op = "none" /\ call'.op # "none") =>
    \A n \in DOMAIN store : ~EndsWith(n, cfg.suffix) => store'[n] = store[n]

\* C27: no operation of a cache with suffix s, reset included, changes or
\* removes an entry of the shared store under a key that does not end with
\* s, such as the entries another cache with another suffix wrote.
C27_SuffixConfinement == [][OthersUntouched]_vars

\* C27 for every operation but reset.
C27_ExceptReset == [][call'.op # "reset" => OthersUntouched]_vars
IsTtlExceeded(e) == e.violation = "TTLExceeded"

\* The entry under a key was written by the call in flight and outlives the
\* maxTTL the rule declared for the key allows: it has no expiry, or one
\* beyond maxTTL.
Outlives(key) ==
  /\ DeclaredRule(cfg.schema, key) # 0
  /\ cfg.schema[DeclaredRule(cfg.schema, key)].node.maxTTL > 0
  /\ store[key \o cfg.suffix].present
  /\ \/ store[key \o cfg.suffix].exp = 0
     \/ store[key \o cfg.suffix].exp > cfg.schema[DeclaredRule(cfg.schema, key)].node.maxTTL

\* C28: when set or mset stores a value under a key whose rule declares
\* maxTTL and emits no TTLExceeded event for the write, the entry expires
\* within maxTTL seconds; a write with ttl 0 is not accepted silently.
C28_LifetimeWithinMaxTtl ==
  (/\ call.op \in {"set", "mset"} /\ cfg.hasSchema /\ call.outcome = "resolved"
   /\ SelectSeq(call.events, IsTtlExceeded) = <<>>) =>
    /\ call.op = "set" => ~Outlives(call.key)
    /\ call.op = "mset" => \A i \in 1..Len(call.args) : ~Outlives(call.args[i].key)

\* C28 for the writes that pass a ttl above zero.
C28_WithPositiveTtl ==
  (call.ttl.def /\ call.ttl.n > 0) => C28_LifetimeWithinMaxTtl
\* C29: get(key) of a key absent from the backing store resolves to null or
\* undefined, without an 'error' event and without rejecting, on the redis
\* store and on the memory store.
C29_AbsentGetResolves ==
  (call.op = "get" /\ call.parse /\ ~store[call.key \o cfg.suffix].present) =>
    /\ call.outcome = "resolved"
    /\ call.result.k \in {"null", "undefined"}
    /\ call.events = <<>>

\* C29 on the redis store.
C29_OnRedis ==
  cfg.backend = "redis" => C29_AbsentGetResolves

\* C30: the key reported to beforeOperation is the caller's key, without the
\* suffix, for get, set, del, ttl and exists and for every element of mget
\* and mset.
C30_HookKeyIsLogical ==
  /\ call.op \in {"get", "set", "del", "ttl", "exists"} =>
       \A i \in 1..Len(call.hooks) : call.hooks[i].key = call.key
  /\ call.op = "mset" =>
       \A i \in 1..Len(call.hooks) : call.hooks[i].key = call.args[i].key
  /\ call.op = "mget" =>
       \A i \in 1..Len(call.hooks) : call.hooks[i].key = call.args[i]

\* C30 for every operation but mget.
C30_ExceptMget ==
  call.op # "mget" => C30_HookKeyIsLogical
====
